---- MODULE Spec2Model ----
(***************************************************************************)
(* Model of the bulk ingestion of osml-data-intake: the worker pool        *)
(* (src/src/aws/osml/data_intake/bulk_processor.py) and the sharder that   *)
(* writes the manifests the pools consume (src/bin/bulk/bulk_cli.py).      *)
(*                                                                         *)
(* start_workers is an asyncio coroutine: the main task and the worker     *)
(* tasks run on one event loop and a task gives up control only at an      *)
(* await.  Every action below is the code between two suspension points.   *)
(* The catalog (DatabaseLogic), the blob store and the raster library are  *)
(* external; each of their calls is an input whose outcome is chosen       *)
(* nondeterministically.                                                   *)
(***************************************************************************)
EXTENDS Integers, Sequences, FiniteSets, TLC

\* Bounds of the model.
MaxItems == 6
MaxWorkers == 2
MaxDetailItems == 2
MaxObjects == 5
MaxShards == 3
MaxKeyObjects == 2

\* len(stac_items) >= 5 in start_workers.worker.
FlushThreshold == 5

\* The value None: the stop sentinel of the queue, "no result" of
\* process_image, the missing path of a failed download.
None == 0

VARIABLES
    image_batch,      \* the manifest: a sequence of source URIs (1..n)
    max_workers,      \* the concurrency bound W
    mainPc,           \* position of the start_workers coroutine
    exception,        \* the exception that left start_workers, or "none"
    collection,       \* catalog: the target collection is "absent",
                      \* "existing" (made by someone else) or "created"
                      \* (the minimal collection made by this run)
    queue,            \* asyncio.Queue: the items waiting to be dequeued
    unfinished,       \* asyncio.Queue._unfinished_tasks
    wpc,              \* position of each worker task
    image,            \* the local variable image of a worker whose task
                      \* has ended (None after the sentinel)
    stac_items,       \* the shared batch buffer
    calls,            \* the bulk_sync calls received by the catalog
    failed_manifest,  \* the lines of failed_images_manifest.json
    record_calls,     \* per URI, the calls of record_failed_image naming it
    upload_errors,    \* URIs for which upload_file logged "Failed to upload"
    dequeues,         \* per URI, the returns of queue.get() with it
    scratch           \* the files of the images in the local directories

poolVars == <<image_batch, max_workers, mainPc, exception, collection, queue,
              unfinished, wpc, image, stac_items, calls, failed_manifest,
              record_calls, upload_errors, dequeues, scratch>>

VARIABLES
    listing1,          \* the objects list_objects_v2 returns to count_objects
    listing2,          \* the objects it returns to
                       \* create_and_upload_manifest_files
    instance_count,    \* S3_Bulk_Manager.instance_count, the shard count N
    shardPc,           \* position of execute_sm_processing_job
    shard_exception,   \* the exception that left it, or "none"
    object_count,      \* S3_Bulk_Manager.object_count
    counted,           \* the keys count_objects counted
    pos,               \* objects of listing2 the sharding loop has visited
    current_manifest,  \* locals of create_and_upload_manifest_files
    count,
    manifest_index,
    remainder,
    saves,             \* the calls of _save_and_upload_manifest
    manifest_filename, \* S3_Bulk_Manager.manifest_filename
    jobs,              \* the calls of create_processing_job
    run,               \* 1, or 2 when the sharder runs a second time
    first_saves        \* the saves of the first run

shardVars == <<listing1, listing2, instance_count, shardPc, shard_exception,
               object_count, counted, pos, current_manifest, count,
               manifest_index, remainder, saves, manifest_filename, jobs,
               run, first_saves>>

VARIABLES
    request,           \* the message given to a single-item processor
    ipc,               \* position of its process method
    trace,             \* the calls process has made, with their outcomes
    image_file,        \* the local variable file_path of ImageProcessor.process
    response,          \* the response process returned, or NoResponse
    published,         \* the messages published to the SNS topics
    item_collection,   \* catalog: the collection of the item is "absent",
                       \* "existing" or "created"
    catalog_items      \* catalog: the items created by create_item

itemVars == <<request, ipc, trace, image_file, response, published,
              item_collection, catalog_items>>

VARIABLES
    main_pc,           \* position of main of bulk_processor.py in a job
    s3_uri,            \* ServiceConfig.bulk_s3_uri, the S3_URI of the job
    s3_list,           \* what process_manifest_file returned to main
    main_calls         \* the calls main has made

mainVars == <<main_pc, s3_uri, s3_list, main_calls>>

vars == <<poolVars, shardVars, itemVars, mainVars>>

Workers == 1..MaxWorkers
Items == 1..MaxItems

\* The worker tasks created by this run.
Pool == 1..max_workers

RECURSIVE SeqOfRange(_, _)
SeqOfRange(a, b) == IF a > b THEN <<>> ELSE <<a>> \o SeqOfRange(a + 1, b)

Range(s) == {s[k] : k \in 1..Len(s)}

RECURSIVE Repeat(_, _)
Repeat(x, n) == IF n = 0 THEN <<>> ELSE <<x>> \o Repeat(x, n - 1)

(***************************************************************************)
(* process_image and what it calls.                                        *)
(***************************************************************************)

\* The outcomes of the external calls made for one image: a scenario.
OkScenario ==
    [download |-> "ok", metadata |-> "ok", aux |-> "ok", upload_aux |-> "ok",
     ovr |-> "path", upload_ovr |-> "ok", stac |-> "ok"]

\* The scenarios of a pool run: an image is processed, or its download
\* fails.
PoolScenarios ==
    {OkScenario, [OkScenario EXCEPT !.download = "fail"]}

\* Every scenario with one fault.
Scenarios ==
    {OkScenario,
     [OkScenario EXCEPT !.download = "fail"],
     [OkScenario EXCEPT !.metadata = "raise"],
     [OkScenario EXCEPT !.aux = "raise"],
     [OkScenario EXCEPT !.upload_aux = "ClientError"],
     [OkScenario EXCEPT !.upload_aux = "raise"],
     [OkScenario EXCEPT !.ovr = "None"],
     [OkScenario EXCEPT !.ovr = "raise"],
     [OkScenario EXCEPT !.upload_ovr = "ClientError"],
     [OkScenario EXCEPT !.upload_ovr = "raise"],
     [OkScenario EXCEPT !.stac = "raise"]}

\* download_file returning the local path whether or not the download
\* succeeded.
download_file_PathAnyway(uri, sc) == uri

\* S3Manager.download_file: the local path, or None when the download
\* failed (both except branches log and fall through).
download_file(uri, sc) == IF sc.download = "ok" THEN uri ELSE None

\* S3Manager.upload_file: "ok", "logged" when a ClientError was caught and
\* logged, "raise" for any other exception; strip(None) raises a TypeError.
upload_file(file_path, outcome) ==
    IF file_path = None THEN "raise"
    ELSE IF outcome = "ClientError" THEN "logged"
    ELSE outcome

\* BulkProcessor.generate_upload_files followed by generate_stac_item: the
\* error of the first call that raises, or "none".
ProcessError(uri, sc) ==
    LET local_object_path == download_file(uri, sc)
        ovr_file == IF sc.ovr = "path" THEN uri ELSE None
    IN  IF local_object_path = None \/ sc.metadata = "raise" THEN "load"
        ELSE IF sc.aux = "raise" THEN "derivative"
        ELSE IF upload_file(uri, sc.upload_aux) = "raise" THEN "upload"
        ELSE IF sc.ovr = "raise" THEN "derivative"
        ELSE IF upload_file(ovr_file, sc.upload_ovr) = "raise" THEN "upload"
        ELSE IF sc.stac = "raise" THEN "record"
        ELSE "none"

\* Did upload_file catch and log a ClientError before process_image ended.
UploadLogged(uri, sc) ==
    LET e == ProcessError(uri, sc)
    IN  \/ /\ e \in {"none", "record"}
           /\ "logged" \in {upload_file(uri, sc.upload_aux),
                            upload_file(uri, sc.upload_ovr)}
        \/ /\ e = "derivative" /\ sc.ovr = "raise"
           /\ upload_file(uri, sc.upload_aux) = "logged"

\* A file of the local directory of an image: the downloaded source, the
\* .aux.xml file or the .ovr file.
File(uri, kind) == [image |-> uri, kind |-> kind]

\* The files generate_upload_files has left in the local directory of the
\* image when process_image returns.  delete_files (line 86) is reached
\* only when no earlier call of generate_upload_files raised.
ScratchLeft(uri, sc) ==
    LET source == {File(uri, "source")}
        aux == {File(uri, "aux")}
        ovr == IF sc.ovr = "path" THEN {File(uri, "ovr")} ELSE {}
    IN  IF download_file(uri, sc) = None THEN {}
        ELSE IF sc.metadata = "raise" \/ sc.aux = "raise" THEN source
        ELSE IF upload_file(uri, sc.upload_aux) = "raise" \/ sc.ovr = "raise"
        THEN source \cup aux
        ELSE IF upload_file(IF sc.ovr = "path" THEN uri ELSE None,
                            sc.upload_ovr) = "raise"
        THEN source \cup aux \cup ovr
        ELSE {}

\* The STAC item built for a source URI; NoItem is the result None.
StacItem(uri) == [image |-> uri]

NoItem == StacItem(None)

\* error_details of process_image.
FailureRecord(uri, e) == [image |-> uri, error |-> e, internal_traceback |-> e]

NoDetails == FailureRecord(None, "none")

\* BulkProcessor.process_image: the STAC item, or None with the error
\* details handed to record_failed_image.
process_image(uri, sc) ==
    LET e == ProcessError(uri, sc)
    IN  IF e = "none"
        THEN [stac_item |-> StacItem(uri), error_details |-> NoDetails]
        ELSE [stac_item |-> NoItem, error_details |-> FailureRecord(uri, e)]

\* BulkProcessor.record_failed_image: one line appended, or nothing when
\* opening or writing the file failed (the error is logged).
record_failed_image(manifest, error_details, written) ==
    IF written THEN Append(manifest, error_details) ELSE manifest

(***************************************************************************)
(* The sharder: S3_Bulk_Manager of bulk_cli.py.  An object key is a        *)
(* sequence of characters.                                                 *)
(***************************************************************************)

\* S3_Bulk_Manager.imagery_extensions.
imagery_extensions ==
    {<<".", "n", "t", "f">>, <<".", "n", "i", "t", "f">>,
     <<".", "t", "i", "f">>, <<".", "t", "i", "f", "f">>}

\* The literal "_preview" of lines 66 and 99.
PreviewMarker == <<"_", "p", "r", "e", "v", "i", "e", "w">>

\* str.lower on the letters the keys of the model use.
LowerChar ==
    [N |-> "n", I |-> "i", T |-> "t", F |-> "f", P |-> "p", R |-> "r",
     E |-> "e", V |-> "v", W |-> "w", X |-> "x"]

lower(key) ==
    [k \in 1..Len(key) |->
        IF key[k] \in DOMAIN LowerChar THEN LowerChar[key[k]] ELSE key[k]]

\* str.endswith(suffix) and the operator "sub in s".
endswith(s, suffix) ==
    /\ Len(s) >= Len(suffix)
    /\ SubSeq(s, Len(s) - Len(suffix) + 1, Len(s)) = suffix

contains(s, sub) ==
    \E k \in 1..(Len(s) - Len(sub) + 1) : SubSeq(s, k, k + Len(sub) - 1) = sub

\* Qualifies with the extension tested on the key as listed.
Qualifies_NoLower(key) ==
    /\ \E ext \in imagery_extensions : endswith(key, ext)
    /\ ~contains(lower(key), PreviewMarker)

\* The test of lines 64-68 and of lines 97-101:
\* obj["Key"].lower().endswith(self.imagery_extensions)
\*     and "_preview" not in obj["Key"].lower()
Qualifies(key) ==
    /\ \E ext \in imagery_extensions : endswith(lower(key), ext)
    /\ ~contains(lower(key), PreviewMarker)

\* The key of the i-th object of a listing: a name and the rest of the key.
Key(i, form) == <<ToString(i)>> \o form

\* The ends of the keys the sharding runs list: an image and a sidecar.
ShardForms == {<<".", "t", "i", "f">>, <<".", "t", "x", "t">>}

\* The ends of the keys that exercise the test on a key.
KeyForms ==
    {<<".", "t", "i", "f">>, <<".", "T", "I", "F">>, <<".", "T", "i", "f">>,
     <<".", "n", "t", "f">>, <<".", "N", "I", "T", "F">>,
     <<".", "t", "i", "f", "f">>, <<".", "t", "x", "t">>,
     <<"t", "i", "f">>, <<".", "t", "i", "f", ".", "x">>,
     <<"_", "p", "r", "e", "v", "i", "e", "w", ".", "t", "i", "f">>,
     <<"_", "P", "R", "E", "V", "I", "E", "W", ".", "T", "I", "F">>,
     <<"_", "P", "r", "e", "v", "i", "e", "w", ".", "n", "t", "f">>,
     <<"_", "p", "r", "e", "v", "i", "e", "w">>}

\* The listings of at most maxLen objects whose keys end in one of forms.
Listings(maxLen, forms) ==
    UNION {{[i \in 1..n |-> Key(i, f[i])] : f \in [1..n -> forms]} :
           n \in 0..maxLen}

\* One entry of a manifest, line 102.
Entry(key) == [S3Uri |-> <<"s3://", "input", "/">> \o key]

\* manifest_file of _save_and_upload_manifest for
\* f"manifest_file_{manifest_index}.json", lines 104 and 125-129.
ManifestUri(index) ==
    <<"s3://", "output", "/", "bulk_", "manifest_file_", index, ".json">>

\* No sharder runs.
ShardIdle ==
    /\ listing1 = <<>>
    /\ listing2 = <<>>
    /\ instance_count = 1
    /\ shardPc = "idle"
    /\ shard_exception = "none"
    /\ object_count = 0
    /\ counted = {}
    /\ pos = 0
    /\ current_manifest = <<>>
    /\ count = 0
    /\ manifest_index = 1
    /\ remainder = 0
    /\ saves = <<>>
    /\ manifest_filename = <<>>
    /\ jobs = <<>>
    /\ run = 1
    /\ first_saves = <<>>

\* The response of a process method that has not returned.
NoResponse == [statusCode |-> 0, body |-> <<>>]

\* The request of no processor.
NoRequest ==
    [processor |-> "none", object |-> "none", topic |-> FALSE, title |-> "none"]

\* The value None of an Optional[List[str]] and a list as such a value.
NoList == [none |-> TRUE, list |-> <<>>]

SomeList(list) == [none |-> FALSE, list |-> list]

\* No job runs main.
MainIdle ==
    /\ main_pc = "idle"
    /\ s3_uri = <<>>
    /\ s3_list = NoList
    /\ main_calls = <<>>

\* No single-item processor runs.
ItemIdle ==
    /\ request = NoRequest
    /\ ipc = "idle"
    /\ trace = <<>>
    /\ image_file = None
    /\ response = NoResponse
    /\ published = <<>>
    /\ item_collection = "existing"
    /\ catalog_items = {}

(***************************************************************************)
(* The initial state: start_workers has been called.                       *)
(***************************************************************************)
InitWith(maxLen) ==
    /\ image_batch \in {SeqOfRange(1, n) : n \in 0..maxLen}
    /\ max_workers \in Workers
    /\ mainPc = "check"
    /\ exception = "none"
    /\ collection \in {"absent", "existing"}
    /\ queue = <<>>
    /\ unfinished = 0
    /\ wpc = [w \in Workers |-> "none"]
    /\ image = [w \in Workers |-> None]
    /\ stac_items = <<>>
    /\ calls = <<>>
    /\ failed_manifest = <<>>
    /\ record_calls = [i \in Items |-> 0]
    /\ upload_errors = {}
    /\ dequeues = [i \in Items |-> 0]
    /\ scratch = {}
    /\ ShardIdle
    /\ ItemIdle
    /\ MainIdle

Init == InitWith(MaxItems)

\* Short manifests, for the runs that draw every scenario of an image.
DetailInit == InitWith(MaxDetailItems)

(***************************************************************************)
(* The main task.                                                          *)
(***************************************************************************)

\* StartPool with every image put on the queue twice.
StartPool_PutTwice ==
    /\ wpc' = [w \in Workers |-> IF w \in Pool THEN "get" ELSE "none"]
    /\ queue' = image_batch \o image_batch
    /\ unfinished' = 2 * Len(image_batch)
    /\ mainPc' = "join"

\* Lines 173-191: the worker tasks are created, every image is put on the
\* (unbounded) queue, and the main task reaches queue.join().
StartPool ==
    /\ wpc' = [w \in Workers |-> IF w \in Pool THEN "get" ELSE "none"]
    /\ queue' = image_batch
    /\ unfinished' = Len(image_batch)
    /\ mainPc' = "join"

\* The main task ends with an exception.
Raise(e) ==
    /\ mainPc' = "raised"
    /\ exception' = e

\* CheckCollection with the NotFoundError swallowed: no collection is
\* created before the pool starts.
CheckCollection_SkipCreate ==
    /\ mainPc = "check"
    /\ \E outcome \in {"answer", "error"} :
          IF outcome = "error"
          THEN /\ Raise("CatalogError")
               /\ UNCHANGED <<wpc, queue, unfinished>>
          ELSE /\ StartPool
               /\ UNCHANGED exception
    /\ UNCHANGED <<image_batch, max_workers, collection, image, stac_items,
                   calls, failed_manifest, record_calls, upload_errors>>
    /\ UNCHANGED <<dequeues, scratch, shardVars, itemVars, mainVars>>

\* await database.check_collection_exists: found, NotFoundError, or any
\* other error of the catalog.
CheckCollection ==
    /\ mainPc = "check"
    /\ \E outcome \in {"answer", "error"} :
          IF outcome = "error"
          THEN /\ Raise("CatalogError")
               /\ UNCHANGED <<wpc, queue, unfinished>>
          ELSE IF collection # "absent"
          THEN /\ StartPool
               /\ UNCHANGED exception
          ELSE /\ mainPc' = "create"
               /\ UNCHANGED <<exception, wpc, queue, unfinished>>
    /\ UNCHANGED <<image_batch, max_workers, collection, image, stac_items,
                   calls, failed_manifest, record_calls, upload_errors>>
    /\ UNCHANGED <<dequeues, scratch, shardVars, itemVars, mainVars>>

\* await create_minimal_collection: the catalog refuses a collection that
\* already exists (ConflictError); any error leaves start_workers.
CreateCollection ==
    /\ mainPc = "create"
    /\ \E outcome \in {"answer", "error"} :
          IF outcome = "error"
          THEN /\ Raise("CatalogError")
               /\ UNCHANGED <<wpc, queue, unfinished, collection>>
          ELSE IF collection # "absent"
          THEN /\ Raise("ConflictError")
               /\ UNCHANGED <<wpc, queue, unfinished, collection>>
          ELSE /\ collection' = "created"
               /\ StartPool
               /\ UNCHANGED exception
    /\ UNCHANGED <<image_batch, max_workers, image, stac_items,
                   calls, failed_manifest, record_calls, upload_errors>>
    /\ UNCHANGED <<dequeues, scratch, shardVars, itemVars, mainVars>>

\* Another shard job that targets the same collection creates it.
OtherShardCreates ==
    /\ mainPc \in {"check", "create"}
    /\ collection = "absent"
    /\ collection' = "existing"
    /\ UNCHANGED <<image_batch, max_workers, mainPc, exception, queue,
                   unfinished, wpc, image, stac_items, calls,
                   failed_manifest, record_calls, upload_errors>>
    /\ UNCHANGED <<dequeues, scratch, shardVars, itemVars, mainVars>>

\* Sentinels with one None too few.
Sentinels_OneShort == Repeat(None, max_workers - 1)

\* queue.join() returns once every put has been matched by a task_done;
\* lines 193-194 then put one None per worker.
Sentinels == Repeat(None, max_workers)

JoinAndStop ==
    /\ mainPc = "join"
    /\ unfinished = 0
    /\ queue' = queue \o Sentinels
    /\ unfinished' = unfinished + Len(Sentinels)
    /\ mainPc' = "gather"
    /\ UNCHANGED <<image_batch, max_workers, exception, collection, wpc,
                   image, stac_items, calls, failed_manifest, record_calls,
                   upload_errors>>
    /\ UNCHANGED <<dequeues, scratch, shardVars, itemVars, mainVars>>

\* submit_bulk_data_catalog: the call reaches the catalog; ok is FALSE when
\* bulk_sync raised, which submit_bulk_data_catalog re-raises.
BulkCall(by, items, ok) == [by |-> by, items |-> items, ok |-> ok]

\* asyncio.gather(*workers), then lines 199-203: the remaining records are
\* submitted once more.
GatherAndFlush ==
    /\ mainPc = "gather"
    /\ \A w \in Pool : wpc[w] \in {"exited", "crashed"}
    /\ IF \E w \in Pool : wpc[w] = "crashed"
       THEN /\ Raise("BulkError")
            /\ UNCHANGED calls
       ELSE IF stac_items = <<>>
       THEN /\ mainPc' = "returned"
            /\ UNCHANGED <<exception, calls>>
       ELSE \E ok \in BOOLEAN :
               /\ calls' = Append(calls, BulkCall("main", stac_items, ok))
               /\ IF ok THEN mainPc' = "returned" /\ UNCHANGED exception
                        ELSE Raise("BulkError")
    /\ UNCHANGED <<image_batch, max_workers, collection, queue, unfinished,
                   wpc, image, stac_items, failed_manifest, record_calls,
                   upload_errors>>
    /\ UNCHANGED <<dequeues, scratch, shardVars, itemVars, mainVars>>

(***************************************************************************)
(* The worker tasks.                                                       *)
(***************************************************************************)

\* image = await queue.get() returns None: the worker leaves its loop.
WorkerStop(w) ==
    /\ w \in Pool
    /\ wpc[w] = "get"
    /\ queue # <<>>
    /\ Head(queue) = None
    /\ queue' = Tail(queue)
    /\ image' = [image EXCEPT ![w] = None]
    /\ wpc' = [wpc EXCEPT ![w] = "exited"]
    /\ UNCHANGED <<image_batch, max_workers, mainPc, exception, collection,
                   unfinished, stac_items, calls, failed_manifest,
                   record_calls, upload_errors>>
    /\ UNCHANGED <<dequeues, scratch, shardVars, itemVars, mainVars>>

\* WorkerFailed without the call of record_failed_image.
WorkerFailed_NoRecord(w, r, written) ==
    /\ unfinished' = unfinished - 1
    /\ UNCHANGED <<wpc, image, stac_items, calls, failed_manifest, record_calls>>

\* WorkerFailed with record_failed_image letting the error of a failed
\* write out: the worker task ends with it.
WorkerFailed_WriteRaises(w, r, written) ==
    /\ failed_manifest' = record_failed_image(failed_manifest, r.error_details, written)
    /\ record_calls' = [record_calls EXCEPT ![r.error_details.image] = @ + 1]
    /\ IF written
       THEN /\ unfinished' = unfinished - 1
            /\ UNCHANGED <<wpc, image>>
       ELSE /\ wpc' = [wpc EXCEPT ![w] = "crashed"]
            /\ image' = [image EXCEPT ![w] = r.error_details.image]
            /\ UNCHANGED unfinished
    /\ UNCHANGED <<stac_items, calls>>

\* Lines 178-184 for an image whose processing failed: the failure is
\* recorded and the item is marked done.
WorkerFailed(w, r, written) ==
    /\ failed_manifest' = record_failed_image(failed_manifest, r.error_details, written)
    /\ record_calls' = [record_calls EXCEPT ![r.error_details.image] = @ + 1]
    /\ unfinished' = unfinished - 1
    /\ UNCHANGED <<wpc, image, stac_items, calls>>

\* WorkerAppend with the threshold test len(stac_items) > 5.
WorkerAppend_StrictThreshold(w, r, ok) ==
    LET appended == Append(stac_items, r.stac_item)
    IN  IF Len(appended) > FlushThreshold
        THEN /\ calls' = Append(calls, BulkCall("worker", appended, ok))
             /\ IF ok
                THEN /\ stac_items' = <<>>
                     /\ unfinished' = unfinished - 1
                     /\ UNCHANGED <<wpc, image>>
                ELSE /\ stac_items' = appended
                     /\ wpc' = [wpc EXCEPT ![w] = "crashed"]
                     /\ image' = [image EXCEPT ![w] = r.stac_item.image]
                     /\ UNCHANGED unfinished
             /\ UNCHANGED <<failed_manifest, record_calls>>
        ELSE /\ stac_items' = appended
             /\ unfinished' = unfinished - 1
             /\ UNCHANGED <<wpc, image, calls, failed_manifest, record_calls>>

\* Lines 179-184 for a STAC item: append, flush at the threshold, clear,
\* task_done.  A failed bulk call ends the worker task at line 182, its
\* local variable image still bound to the item.
WorkerAppend(w, r, ok) ==
    LET appended == Append(stac_items, r.stac_item)
    IN  IF Len(appended) >= FlushThreshold
        THEN /\ calls' = Append(calls, BulkCall("worker", appended, ok))
             /\ IF ok
                THEN /\ stac_items' = <<>>
                     /\ unfinished' = unfinished - 1
                     /\ UNCHANGED <<wpc, image>>
                ELSE /\ stac_items' = appended
                     /\ wpc' = [wpc EXCEPT ![w] = "crashed"]
                     /\ image' = [image EXCEPT ![w] = r.stac_item.image]
                     /\ UNCHANGED unfinished
             /\ UNCHANGED <<failed_manifest, record_calls>>
        ELSE /\ stac_items' = appended
             /\ unfinished' = unfinished - 1
             /\ UNCHANGED <<wpc, image, calls, failed_manifest, record_calls>>

\* One pass of the worker loop, from the return of queue.get() with an
\* image to the next queue.get().  Nothing suspends the task in between:
\* get() does not wait on a queue that holds an item, the semaphore has
\* max_workers permits for max_workers tasks, and process_image and
\* submit_bulk_data_catalog are synchronous.
WorkerPass(w, scenarios) ==
    /\ w \in Pool
    /\ wpc[w] = "get"
    /\ queue # <<>>
    /\ Head(queue) # None
    /\ queue' = Tail(queue)
    /\ \E sc \in scenarios, written \in BOOLEAN, ok \in BOOLEAN :
          LET r == process_image(Head(queue), sc)
          IN  /\ IF r.stac_item = NoItem
                 THEN WorkerFailed(w, r, written)
                 ELSE WorkerAppend(w, r, ok)
              /\ upload_errors' = IF UploadLogged(Head(queue), sc)
                                  THEN upload_errors \cup {Head(queue)}
                                  ELSE upload_errors
              /\ scratch' = scratch \cup ScratchLeft(Head(queue), sc)
    /\ UNCHANGED <<image_batch, max_workers, mainPc, exception, collection>>
    /\ dequeues' = [dequeues EXCEPT ![Head(queue)] = @ + 1]
    /\ UNCHANGED <<shardVars, itemVars, mainVars>>

WorkerProcess(w) == WorkerPass(w, PoolScenarios)

WorkerProcessDetail(w) == WorkerPass(w, Scenarios)

Next ==
    \/ CheckCollection
    \/ CreateCollection
    \/ OtherShardCreates
    \/ JoinAndStop
    \/ GatherAndFlush
    \/ \E w \in Workers : WorkerStop(w)
    \/ \E w \in Workers : WorkerProcess(w)

Spec == Init /\ [][Next]_vars

\* The same pool on short manifests, every scenario of an image drawn.
DetailNext ==
    \/ CheckCollection
    \/ CreateCollection
    \/ OtherShardCreates
    \/ JoinAndStop
    \/ GatherAndFlush
    \/ \E w \in Workers : WorkerStop(w)
    \/ \E w \in Workers : WorkerProcessDetail(w)

DetailSpec == DetailInit /\ [][DetailNext]_vars

\* The event loop runs every task that is ready.
FairSpec ==
    /\ Init /\ [][Next]_vars
    /\ WF_vars(CheckCollection)
    /\ WF_vars(CreateCollection)
    /\ WF_vars(JoinAndStop)
    /\ WF_vars(GatherAndFlush)
    /\ \A w \in Workers : WF_vars(WorkerStop(w)) /\ WF_vars(WorkerProcess(w))

TypeOK ==
    /\ mainPc \in {"idle", "check", "create", "join", "gather", "returned",
                  "raised"}
    /\ exception \in {"none", "CatalogError", "ConflictError", "BulkError"}
    /\ collection \in {"absent", "existing", "created"}
    /\ unfinished \in Nat
    /\ \A w \in Workers : wpc[w] \in {"none", "get", "exited", "crashed"}

(***************************************************************************)
(* execute_sm_processing_job and the sharder it runs.                      *)
(***************************************************************************)

\* start_workers is not running.
PoolIdle ==
    /\ image_batch = <<>>
    /\ max_workers = 1
    /\ mainPc = "idle"
    /\ exception = "none"
    /\ collection = "existing"
    /\ queue = <<>>
    /\ unfinished = 0
    /\ wpc = [w \in Workers |-> "none"]
    /\ image = [w \in Workers |-> None]
    /\ stac_items = <<>>
    /\ calls = <<>>
    /\ failed_manifest = <<>>
    /\ record_calls = [i \in Items |-> 0]
    /\ upload_errors = {}
    /\ dequeues = [i \in Items |-> 0]
    /\ scratch = {}

\* S3_Bulk_Manager.__init__ (lines 19-37) and the locals of
\* create_and_upload_manifest_files before its first use of them.
FreshManager ==
    /\ shardPc = "count"
    /\ shard_exception = "none"
    /\ object_count = 0
    /\ counted = {}
    /\ pos = 0
    /\ current_manifest = <<>>
    /\ count = 0
    /\ manifest_index = 1
    /\ remainder = 0
    /\ saves = <<>>
    /\ manifest_filename = <<>>
    /\ jobs = <<>>

\* execute_sm_processing_job has been called for a bucket whose listing is
\* listing1 during the counting pass and listing2 during the sharding pass.
ShardInitWith(maxLen, forms, changes) ==
    /\ PoolIdle
    /\ ItemIdle
    /\ MainIdle
    /\ listing1 \in Listings(maxLen, forms)
    /\ listing2 \in IF changes THEN Listings(maxLen, forms) ELSE {listing1}
    /\ instance_count \in 1..MaxShards
    /\ FreshManager
    /\ run = 1
    /\ first_saves = <<>>

\* The listing of 23 images sharded for 5 instances.
ExampleInit ==
    /\ PoolIdle
    /\ ItemIdle
    /\ MainIdle
    /\ listing1 = [i \in 1..23 |-> Key(i, <<".", "t", "i", "f">>)]
    /\ listing2 = listing1
    /\ instance_count = 5
    /\ FreshManager
    /\ run = 1
    /\ first_saves = <<>>

ShardInit ==
    \/ ShardInitWith(MaxObjects, ShardForms, TRUE)
    \/ ExampleInit

\* Short unchanged listings, the key of every object drawn from KeyForms.
KeyInit == ShardInitWith(MaxKeyObjects, KeyForms, FALSE)

\* An exception leaves execute_sm_processing_job.
ShardRaise(e) ==
    /\ shardPc' = "raised"
    /\ shard_exception' = e

\* objects_per_instance_per_file rounded up.
objects_per_instance_per_file_RoundedUp ==
    (object_count + instance_count - 1) \div instance_count

\* Line 84.
objects_per_instance_per_file == object_count \div instance_count

\* count_objects (lines 51-72), then lines 84-90 of
\* create_and_upload_manifest_files.  The paginator raises, or every page
\* is read and the qualifying keys are counted.
CountObjects ==
    /\ shardPc = "count"
    /\ \E outcome \in {"listed", "error"} :
          IF outcome = "error"
          THEN /\ ShardRaise("ListingError")
               /\ UNCHANGED <<object_count, counted, remainder>>
          ELSE LET qualifying == {k \in 1..Len(listing1) : Qualifies(listing1[k])}
               IN  /\ counted' = {listing1[k] : k \in qualifying}
                   /\ object_count' = Cardinality(qualifying)
                   /\ remainder' = Cardinality(qualifying) % instance_count
                   /\ shardPc' = "shard"
                   /\ UNCHANGED shard_exception
    /\ UNCHANGED <<listing1, listing2, instance_count, pos, current_manifest,
                   count, manifest_index, saves, manifest_filename, jobs, run,
                   first_saves>>
    /\ UNCHANGED <<poolVars, itemVars, mainVars>>

\* Save with every manifest named by the index 1.
Save_IndexOne(index, manifest_data, ok) ==
    [name |-> ManifestUri(1), entries |-> manifest_data, ok |-> ok]

\* One call of _save_and_upload_manifest.
Save(index, manifest_data, ok) ==
    [name |-> ManifestUri(index), entries |-> manifest_data, ok |-> ok]

\* SaveAndUpload with the URI recorded before the upload.
SaveAndUpload_RecordFirst(index, manifest_data, ok) ==
    /\ saves' = Append(saves, Save(index, manifest_data, ok))
    /\ manifest_filename' = Append(manifest_filename, ManifestUri(index))

\* _save_and_upload_manifest (lines 115-136): s3_client.upload_file
\* (line 131) returns or raises; the URI is recorded (line 132) after it
\* returned.
SaveAndUpload(index, manifest_data, ok) ==
    /\ saves' = Append(saves, Save(index, manifest_data, ok))
    /\ manifest_filename' =
          IF ok THEN Append(manifest_filename, ManifestUri(index))
          ELSE manifest_filename

\* ShardObject without line 108: remainder is never reduced.
ShardObject_KeepRemainder ==
    /\ shardPc = "shard"
    /\ pos < Len(listing2)
    /\ \E outcome \in {"listed", "error"}, ok \in BOOLEAN :
          LET key == listing2[pos + 1]
              appended == Append(current_manifest, Entry(key))
          IN  IF outcome = "error"
              THEN /\ ok
                   /\ ShardRaise("ListingError")
                   /\ UNCHANGED <<pos, current_manifest, count, manifest_index,
                                  remainder, saves, manifest_filename>>
              ELSE IF ~Qualifies(key)
              THEN /\ ok
                   /\ pos' = pos + 1
                   /\ UNCHANGED <<shardPc, shard_exception, current_manifest,
                                  count, manifest_index, remainder, saves,
                                  manifest_filename>>
              ELSE IF count + 1 >= objects_per_instance_per_file
                                      + (IF remainder > 0 THEN 1 ELSE 0)
              THEN /\ SaveAndUpload(manifest_index, appended, ok)
                   /\ IF ok
                      THEN /\ current_manifest' = <<>>
                           /\ count' = 0
                           /\ manifest_index' = manifest_index + 1
                           /\ remainder' = remainder
                           /\ pos' = pos + 1
                           /\ UNCHANGED <<shardPc, shard_exception>>
                      ELSE /\ ShardRaise("UploadError")
                           /\ current_manifest' = appended
                           /\ count' = count + 1
                           /\ UNCHANGED <<pos, manifest_index, remainder>>
              ELSE /\ ok
                   /\ current_manifest' = appended
                   /\ count' = count + 1
                   /\ pos' = pos + 1
                   /\ UNCHANGED <<shardPc, shard_exception, manifest_index,
                                  remainder, saves, manifest_filename>>
    /\ UNCHANGED <<listing1, listing2, instance_count, object_count, counted,
                   jobs, run, first_saves>>
    /\ UNCHANGED <<poolVars, itemVars, mainVars>>

\* Lines 95-108: the next object of the sharding pass.  Fetching its page
\* may raise; a qualifying key is appended and the manifest is uploaded
\* when it has reached its size.
ShardObject ==
    /\ shardPc = "shard"
    /\ pos < Len(listing2)
    /\ \E outcome \in {"listed", "error"}, ok \in BOOLEAN :
          LET key == listing2[pos + 1]
              appended == Append(current_manifest, Entry(key))
          IN  IF outcome = "error"
              THEN /\ ok
                   /\ ShardRaise("ListingError")
                   /\ UNCHANGED <<pos, current_manifest, count, manifest_index,
                                  remainder, saves, manifest_filename>>
              ELSE IF ~Qualifies(key)
              THEN /\ ok
                   /\ pos' = pos + 1
                   /\ UNCHANGED <<shardPc, shard_exception, current_manifest,
                                  count, manifest_index, remainder, saves,
                                  manifest_filename>>
              ELSE IF count + 1 >= objects_per_instance_per_file
                                      + (IF remainder > 0 THEN 1 ELSE 0)
              THEN /\ SaveAndUpload(manifest_index, appended, ok)
                   /\ IF ok
                      THEN /\ current_manifest' = <<>>
                           /\ count' = 0
                           /\ manifest_index' = manifest_index + 1
                           /\ remainder' = remainder - 1
                           /\ pos' = pos + 1
                           /\ UNCHANGED <<shardPc, shard_exception>>
                      ELSE /\ ShardRaise("UploadError")
                           /\ current_manifest' = appended
                           /\ count' = count + 1
                           /\ UNCHANGED <<pos, manifest_index, remainder>>
              ELSE /\ ok
                   /\ current_manifest' = appended
                   /\ count' = count + 1
                   /\ pos' = pos + 1
                   /\ UNCHANGED <<shardPc, shard_exception, manifest_index,
                                  remainder, saves, manifest_filename>>
    /\ UNCHANGED <<listing1, listing2, instance_count, object_count, counted,
                   jobs, run, first_saves>>
    /\ UNCHANGED <<poolVars, itemVars, mainVars>>

\* FinalFlush without the test of line 111: what is left is uploaded even
\* when nothing is left.
FinalFlush_Always ==
    /\ shardPc = "shard"
    /\ pos = Len(listing2)
    /\ \E ok \in BOOLEAN :
          /\ SaveAndUpload(manifest_index, current_manifest, ok)
          /\ IF ok THEN shardPc' = "submit" /\ UNCHANGED shard_exception
                   ELSE ShardRaise("UploadError")
    /\ UNCHANGED <<listing1, listing2, instance_count, object_count, counted,
                   pos, current_manifest, count, manifest_index, remainder,
                   jobs, run, first_saves>>
    /\ UNCHANGED <<poolVars, itemVars, mainVars>>

\* Lines 110-113: the listing is exhausted; what is left is uploaded.
FinalFlush ==
    /\ shardPc = "shard"
    /\ pos = Len(listing2)
    /\ IF current_manifest # <<>>
       THEN \E ok \in BOOLEAN :
               /\ SaveAndUpload(manifest_index, current_manifest, ok)
               /\ IF ok THEN shardPc' = "submit" /\ UNCHANGED shard_exception
                        ELSE ShardRaise("UploadError")
       ELSE /\ shardPc' = "submit"
            /\ UNCHANGED <<shard_exception, saves, manifest_filename>>
    /\ UNCHANGED <<listing1, listing2, instance_count, object_count, counted,
                   pos, current_manifest, count, manifest_index, remainder,
                   jobs, run, first_saves>>
    /\ UNCHANGED <<poolVars, itemVars, mainVars>>

\* SubmitJob with the first manifest given to every job.
SubmitJob_FirstManifest ==
    /\ shardPc = "submit"
    /\ Len(jobs) < Len(manifest_filename)
    /\ \E ok \in BOOLEAN :
          IF ok
          THEN /\ jobs' = Append(jobs, [S3_URI |-> manifest_filename[1],
                                        InstanceCount |-> 1])
               /\ UNCHANGED <<shardPc, shard_exception>>
          ELSE /\ ShardRaise("JobError")
               /\ UNCHANGED jobs
    /\ UNCHANGED <<listing1, listing2, instance_count, object_count, counted,
                   pos, current_manifest, count, manifest_index, remainder,
                   saves, manifest_filename, run, first_saves>>
    /\ UNCHANGED <<poolVars, itemVars, mainVars>>

\* Lines 265-311: create_processing_job for the next manifest of
\* manifest_filename; an error of the call leaves
\* execute_sm_processing_job.
SubmitJob ==
    /\ shardPc = "submit"
    /\ Len(jobs) < Len(manifest_filename)
    /\ \E ok \in BOOLEAN :
          IF ok
          THEN /\ jobs' = Append(jobs,
                    [S3_URI |-> manifest_filename[Len(jobs) + 1],
                     InstanceCount |-> 1])
               /\ UNCHANGED <<shardPc, shard_exception>>
          ELSE /\ ShardRaise("JobError")
               /\ UNCHANGED jobs
    /\ UNCHANGED <<listing1, listing2, instance_count, object_count, counted,
                   pos, current_manifest, count, manifest_index, remainder,
                   saves, manifest_filename, run, first_saves>>
    /\ UNCHANGED <<poolVars, itemVars, mainVars>>

\* The loop of line 265 has ended: execute_sm_processing_job returns.
ReturnFromExecute ==
    /\ shardPc = "submit"
    /\ Len(jobs) = Len(manifest_filename)
    /\ shardPc' = "done"
    /\ UNCHANGED <<listing1, listing2, instance_count, shard_exception,
                   object_count, counted, pos, current_manifest, count,
                   manifest_index, remainder, saves, manifest_filename, jobs,
                   run, first_saves>>
    /\ UNCHANGED <<poolVars, itemVars, mainVars>>

\* Rerun with the manifest index of the first run carried over.
Rerun_KeepIndex ==
    /\ shardPc = "done"
    /\ run = 1
    /\ listing1 = listing2
    /\ run' = 2
    /\ first_saves' = saves
    /\ shardPc' = "count"
    /\ object_count' = 0
    /\ counted' = {}
    /\ pos' = 0
    /\ current_manifest' = <<>>
    /\ count' = 0
    /\ manifest_index' = manifest_index
    /\ remainder' = 0
    /\ saves' = <<>>
    /\ manifest_filename' = <<>>
    /\ jobs' = <<>>
    /\ UNCHANGED shard_exception
    /\ UNCHANGED <<listing1, listing2, instance_count>>
    /\ UNCHANGED <<poolVars, itemVars, mainVars>>

\* execute_sm_processing_job is called a second time on the same listing:
\* line 257 constructs a new S3_Bulk_Manager.
Rerun ==
    /\ shardPc = "done"
    /\ run = 1
    /\ listing1 = listing2
    /\ run' = 2
    /\ first_saves' = saves
    /\ shardPc' = "count"
    /\ object_count' = 0
    /\ counted' = {}
    /\ pos' = 0
    /\ current_manifest' = <<>>
    /\ count' = 0
    /\ manifest_index' = 1
    /\ remainder' = 0
    /\ saves' = <<>>
    /\ manifest_filename' = <<>>
    /\ jobs' = <<>>
    /\ UNCHANGED shard_exception
    /\ UNCHANGED <<listing1, listing2, instance_count>>
    /\ UNCHANGED <<poolVars, itemVars, mainVars>>

ShardNext ==
    \/ CountObjects
    \/ ShardObject
    \/ FinalFlush
    \/ SubmitJob
    \/ ReturnFromExecute
    \/ Rerun

ShardSpec == ShardInit /\ [][ShardNext]_vars

KeySpec == KeyInit /\ [][ShardNext]_vars

(***************************************************************************)
(* The single-item processors: ProcessorBase (processor_base.py),          *)
(* ImageProcessor (image_processor.py) and IngestProcessor                 *)
(* (ingest_processor.py).  A JSON text, the str of an exception and a      *)
(* stack trace are sequences of tokens.                                    *)
(***************************************************************************)

\* json.dumps of a string, of a list of strings, and of the dictionary of
\* failure_message.
JsonString(words) == <<"\"">> \o words \o <<"\"">>

JsonList(lines) == <<"[">> \o lines \o <<"]">>

JsonErrorResponse(message, stack_trace) ==
    <<"{", "message", ":">> \o JsonString(message)
        \o <<",", "stack_trace", ":">> \o JsonList(stack_trace) \o <<"}">>

\* An exception raised by a step of process: str(e) is its message.
Exc(step, message) == [step |-> step, message |-> message]

\* traceback.format_exc().splitlines() in the except clause that caught e.
format_exc(e) == <<"Traceback (most recent call last):", e.step>>

\* ProcessorBase.success_message and ProcessorBase.failure_message.
success_message(message) ==
    [statusCode |-> 200, body |-> JsonString(message)]

failure_message(e) ==
    [statusCode |-> 500,
     body |-> JsonErrorResponse(e.message, format_exc(e))]

\* The image of the request and the names under which messages and logs
\* mention it: its URI, and the local path download_file returns.
ImageUri == 1

UriName == "s3://bucket/image.tif"

PathName(path) == IF path = None THEN "None" ELSE "/tmp/images/image.tif"

\* The calls of ImageProcessor.process in the order of lines 300-326.
ImageSteps ==
    <<"download", "metadata", "info", "aux", "ovr", "upload_info",
      "upload_aux", "upload_ovr", "stac", "publish">>

\* The outcomes of the external calls behind them.
UploadOutcomes == {"ok", "ClientError", "raise"}

ImageScenarios ==
    [download : {"ok", "ClientError404", "ClientError403", "Exception"},
     metadata : {"ok", "raise"},
     info : {"ok", "raise"},
     aux : {"ok", "raise"},
     ovr : {"path", "None", "raise"},
     upload_info : UploadOutcomes,
     upload_aux : UploadOutcomes,
     upload_ovr : UploadOutcomes,
     stac : {"ok", "raise"},
     publish : {"ok", "ClientError", "raise"}]

\* What a call of ImageProcessor.process does in a scenario: "ok", "logged"
\* (the error was caught and logged by the callee), "skip" (line 319) or
\* "raise".  load_gdal_dataset raises for the path None.
ImageStepResult(step, sc) ==
    CASE step = "download" -> IF download_file(ImageUri, sc) = None
                              THEN "logged" ELSE "ok"
      [] step = "metadata" -> IF download_file(ImageUri, sc) = None
                              THEN "raise" ELSE sc.metadata
      [] step = "ovr" -> IF sc.ovr = "raise" THEN "raise" ELSE "ok"
      [] step = "upload_info" -> upload_file(ImageUri, sc.upload_info)
      [] step = "upload_aux" -> upload_file(ImageUri, sc.upload_aux)
      [] step = "upload_ovr" -> IF sc.ovr = "None" THEN "skip"
                                ELSE upload_file(ImageUri, sc.upload_ovr)
      [] step = "publish" -> IF sc.publish = "ok" THEN "ok" ELSE "raise"
      [] OTHER -> sc[step]

\* The calls made from the k-th on, up to the first that raises.
RECURSIVE ImageTrace(_, _)
ImageTrace(k, sc) ==
    IF k > Len(ImageSteps) THEN <<>>
    ELSE LET step == ImageSteps[k]
             call == [step |-> step, outcome |-> sc[step],
                      result |-> ImageStepResult(step, sc)]
         IN  IF call.result = "raise" THEN <<call>>
             ELSE <<call>> \o ImageTrace(k + 1, sc)

\* The exception of the call that raised: load_gdal_dataset names the path
\* it was given, the others their step.
ImageException(call, sc) ==
    IF call.step = "metadata"
    THEN Exc("metadata", <<"Unable to Load", PathName(download_file(ImageUri, sc))>>)
    ELSE Exc(call.step, <<call.step, "failed">>)

\* json.dumps(stac_item) of line 326.
StacMessage == <<"{", "stac_item", UriName, "}">>

\* The requests of ImageProcessor: the object of the URI exists or not.
ImageRequests ==
    {[processor |-> "image", object |-> o, topic |-> TRUE, title |-> "none"] :
        o \in {"present", "missing"}}

\* ImageProcessor.process with the except clause of line 334 left out: the
\* exception of a step leaves process and no response is returned.
ImageProcess_NoExcept ==
    /\ request.processor = "image"
    /\ ipc = "start"
    /\ \E sc \in ImageScenarios :
          /\ request.object = "missing" => sc.download = "ClientError404"
          /\ LET t == ImageTrace(1, sc)
                 last == t[Len(t)]
             IN  /\ trace' = t
                 /\ image_file' = download_file(ImageUri, sc)
                 /\ published' = IF last.step = "publish" /\ last.result = "ok"
                                 THEN Append(published, StacMessage)
                                 ELSE published
                 /\ response' = IF last.result = "raise" THEN NoResponse
                                ELSE success_message(<<"Message processed successfully">>)
                 /\ ipc' = IF last.result = "raise" THEN "raised" ELSE "done"
    /\ UNCHANGED <<request, item_collection, catalog_items>>
    /\ UNCHANGED <<poolVars, shardVars, mainVars>>

\* ImageProcessor.process (lines 290-336).  It is synchronous: the whole
\* call is one step.  A missing object makes the download fail with the
\* client error 404.
ImageProcess ==
    /\ request.processor = "image"
    /\ ipc = "start"
    /\ \E sc \in ImageScenarios :
          /\ request.object = "missing" => sc.download = "ClientError404"
          /\ LET t == ImageTrace(1, sc)
                 last == t[Len(t)]
             IN  /\ trace' = t
                 /\ image_file' = download_file(ImageUri, sc)
                 /\ published' = IF last.step = "publish" /\ last.result = "ok"
                                 THEN Append(published, StacMessage)
                                 ELSE published
                 /\ response' = IF last.result = "raise"
                                THEN failure_message(ImageException(last, sc))
                                ELSE success_message(<<"Message processed successfully">>)
    /\ ipc' = "done"
    /\ UNCHANGED <<request, item_collection, catalog_items>>
    /\ UNCHANGED <<poolVars, shardVars, mainVars>>

\* The requests of IngestProcessor: the post-processing topic is
\* configured or not, and the title of the data asset of the item is one
\* of the titles to post-process, another title, or missing.
IngestRequests ==
    {[processor |-> "ingest", object |-> "none", topic |-> t, title |-> a] :
        t \in BOOLEAN, a \in {"Source Image", "Other", "none"}}

\* The titles of POST_PROCESS_ASSET_DATA_TITLES in the environment.
ConfiguredTitles == {"Source Image"}

\* ServiceConfig.post_processing_asset_data_titles as read at line 62.
\* ServiceConfig is a dataclass that is never instantiated and the field is
\* declared with field(default_factory=...) (app_config.py lines 37-39), so
\* the class has no such attribute: reading it raises AttributeError.
post_processing_asset_data_titles ==
    [defined |-> FALSE, titles |-> ConfiguredTitles]

\* One call of process, added to the trace.
Call(step, outcome, result) ==
    [step |-> step, outcome |-> outcome, result |-> result]

\* The except clause of line 67: process returns the failure response.
IngestFails(step, outcome, message) ==
    /\ trace' = Append(trace, Call(step, outcome, "raise"))
    /\ response' = failure_message(Exc(step, message))
    /\ ipc' = "done"

\* IngestCheckCollection with the item created before the collection is
\* looked at.
IngestCheckCollection_ItemFirst ==
    /\ request.processor = "ingest"
    /\ ipc = "start"
    /\ trace' = Append(trace, Call("create_item", "ok", "ok"))
    /\ catalog_items' = catalog_items \cup {"item"}
    /\ response' = success_message(<<"STAC item created successfully">>)
    /\ ipc' = "done"
    /\ UNCHANGED <<request, image_file, published, item_collection>>
    /\ UNCHANGED <<poolVars, shardVars, mainVars>>

\* Line 51, await check_collection_exists: found, NotFoundError (caught at
\* line 52), or another error of the catalog.
IngestCheckCollection ==
    /\ request.processor = "ingest"
    /\ ipc = "start"
    /\ \E outcome \in {"answer", "error"} :
          IF outcome = "error"
          THEN IngestFails("check", "error", <<"check", "failed">>)
          ELSE IF item_collection # "absent"
          THEN /\ trace' = Append(trace, Call("check", "found", "ok"))
               /\ ipc' = "prep"
               /\ UNCHANGED response
          ELSE /\ trace' = Append(trace, Call("check", "NotFoundError", "caught"))
               /\ ipc' = "create"
               /\ UNCHANGED response
    /\ UNCHANGED <<request, image_file, published, item_collection,
                   catalog_items>>
    /\ UNCHANGED <<poolVars, shardVars, mainVars>>

\* Line 54, await create_minimal_collection: the catalog refuses a
\* collection that exists by now.
IngestCreateCollection ==
    /\ request.processor = "ingest"
    /\ ipc = "create"
    /\ \E outcome \in {"answer", "error"} :
          IF outcome = "error"
          THEN /\ IngestFails("create_collection", "error",
                              <<"create_collection", "failed">>)
               /\ UNCHANGED item_collection
          ELSE IF item_collection # "absent"
          THEN /\ IngestFails("create_collection", "ConflictError",
                              <<"ConflictError">>)
               /\ UNCHANGED item_collection
          ELSE /\ trace' = Append(trace, Call("create_collection", "ok", "ok"))
               /\ item_collection' = "created"
               /\ ipc' = "prep"
               /\ UNCHANGED response
    /\ UNCHANGED <<request, image_file, published, catalog_items>>
    /\ UNCHANGED <<poolVars, shardVars, mainVars>>

\* Another invocation creates the collection of the item.
OtherInvocationCreates ==
    /\ request.processor = "ingest"
    /\ ipc \in {"start", "create"}
    /\ item_collection = "absent"
    /\ item_collection' = "existing"
    /\ UNCHANGED <<request, ipc, trace, image_file, response, published,
                   catalog_items>>
    /\ UNCHANGED <<poolVars, shardVars, mainVars>>

\* Line 55, await prep_create_item.
IngestPrepItem ==
    /\ request.processor = "ingest"
    /\ ipc = "prep"
    /\ \E outcome \in {"ok", "error"} :
          IF outcome = "error"
          THEN IngestFails("prep_create_item", "error",
                           <<"prep_create_item", "failed">>)
          ELSE /\ trace' = Append(trace, Call("prep_create_item", "ok", "ok"))
               /\ ipc' = "create_item"
               /\ UNCHANGED response
    /\ UNCHANGED <<request, image_file, published, item_collection,
                   catalog_items>>
    /\ UNCHANGED <<poolVars, shardVars, mainVars>>

\* Lines 57-66, await create_item and what follows it without an await:
\* the test of line 62, publish_message, the success response.
IngestCreateItem ==
    /\ request.processor = "ingest"
    /\ ipc = "create_item"
    /\ \E outcome \in {"ok", "error"}, publish \in {"ok", "ClientError"} :
          IF outcome = "error"
          THEN /\ publish = "ok"
               /\ IngestFails("create_item", "error", <<"Database error">>)
               /\ UNCHANGED <<catalog_items, published>>
          ELSE /\ catalog_items' = catalog_items \cup {"item"}
               /\ LET created == Append(trace, Call("create_item", "ok", "ok"))
                  IN  IF ~(request.topic /\ request.title # "none")
                      THEN /\ publish = "ok"
                           /\ trace' = created
                           /\ response' = success_message(<<"STAC item created successfully">>)
                           /\ UNCHANGED published
                      ELSE IF ~post_processing_asset_data_titles.defined
                      THEN /\ publish = "ok"
                           /\ trace' = Append(created,
                                 Call("titles", "AttributeError", "raise"))
                           /\ response' = failure_message(
                                 Exc("titles", <<"AttributeError",
                                       "post_processing_asset_data_titles">>))
                           /\ UNCHANGED published
                      ELSE IF request.title \notin post_processing_asset_data_titles.titles
                      THEN /\ publish = "ok"
                           /\ trace' = created
                           /\ response' = success_message(<<"STAC item created successfully">>)
                           /\ UNCHANGED published
                      ELSE IF publish = "ok"
                      THEN /\ trace' = Append(created, Call("publish", "ok", "ok"))
                           /\ published' = Append(published,
                                 <<"{", "stac_item", request.title, "}">>)
                           /\ response' = success_message(<<"STAC item created successfully">>)
                      ELSE /\ trace' = Append(created,
                                 Call("publish", "ClientError", "raise"))
                           /\ response' = failure_message(
                                 Exc("publish", <<"publish", "failed">>))
                           /\ UNCHANGED published
               /\ ipc' = "done"
    /\ UNCHANGED <<request, image_file, item_collection>>
    /\ UNCHANGED <<poolVars, shardVars, mainVars>>

\* A Lambda invocation: the handler of image_processor.py or of
\* ingest_processor.py has constructed its processor and calls process.
ItemInit ==
    /\ PoolIdle
    /\ ShardIdle
    /\ MainIdle
    /\ request \in ImageRequests \cup IngestRequests
    /\ ipc = "start"
    /\ trace = <<>>
    /\ image_file = None
    /\ response = NoResponse
    /\ published = <<>>
    /\ item_collection \in
          IF request.processor = "ingest" THEN {"absent", "existing"}
          ELSE {"existing"}
    /\ catalog_items = {}

ItemNext ==
    \/ ImageProcess
    \/ IngestCheckCollection
    \/ IngestCreateCollection
    \/ OtherInvocationCreates
    \/ IngestPrepItem
    \/ IngestCreateItem

ItemSpec == ItemInit /\ [][ItemNext]_vars

(***************************************************************************)
(* Vocabulary of the properties.                                           *)
(***************************************************************************)

\* The source URIs of the manifest.
Uris == Range(image_batch)

\* The bulk-insert calls that contain the record of a source URI.
CallsWith(uri) == {c \in 1..Len(calls) : StacItem(uri) \in Range(calls[c].items)}

\* The lines of the failure manifest that name a source URI.
LinesNaming(uri) == {k \in 1..Len(failed_manifest) : failed_manifest[k].image = uri}

\* start_workers ran the pool to its end: it returned, or its final flush
\* raised.
RunCompleted ==
    \/ mainPc = "returned"
    \/ mainPc = "raised" /\ exception = "BulkError"

\* The source URIs for which process_image returned a STAC item, once the
\* run has completed.
Succeeded == {uri \in Uris : record_calls[uri] = 0}

NoBulkFailure == \A c \in 1..Len(calls) : calls[c].ok

CeilDiv(a, b) == (a + b - 1) \div b

(***************************************************************************)
(* C1                                                                      *)
(***************************************************************************)

\* C1 as stated: when the run has completed, every source URI is either in
\* a bulk-insert call or named by exactly one line of the failure manifest,
\* never both and never neither.
C1_PartitionByManifestLine ==
    RunCompleted =>
        \A uri \in Uris :
            \/ CallsWith(uri) # {} /\ LinesNaming(uri) = {}
            \/ CallsWith(uri) = {} /\ Cardinality(LinesNaming(uri)) = 1

\* C1 amended: when the run has completed, every source URI is either in a
\* bulk-insert call, or record_failed_image was called exactly once with a
\* FailureRecord naming it, which wrote one line naming it unless the write
\* failed; never both and never neither.
C1_PartitionByRecordCall ==
    RunCompleted =>
        \A uri \in Uris :
            \/ /\ CallsWith(uri) # {}
               /\ record_calls[uri] = 0
               /\ LinesNaming(uri) = {}
            \/ /\ CallsWith(uri) = {}
               /\ record_calls[uri] = 1
               /\ Cardinality(LinesNaming(uri)) <= 1
               /\ \A k \in LinesNaming(uri) :
                     failed_manifest[k] = FailureRecord(uri, failed_manifest[k].error)

\* A completed run with a submitted URI, a failed URI with its line, and a
\* failed URI whose line could not be written.
C1_Witness ==
    /\ mainPc = "returned"
    /\ \E a, b, c \in Uris :
          /\ CallsWith(a) # {}
          /\ record_calls[b] = 1 /\ Cardinality(LinesNaming(b)) = 1
          /\ record_calls[c] = 1 /\ LinesNaming(c) = {}

(***************************************************************************)
(* C2                                                                      *)
(***************************************************************************)

\* C2: when the run returns with S succeeded items and no failed bulk
\* call, there are ceil(S/5) bulk-insert calls, all but the last with 5
\* records, the last with S mod 5 records (5 when 5 divides S), and none
\* when S = 0.
C2_FlushCount ==
    (mainPc = "returned" /\ NoBulkFailure) =>
        LET S == Cardinality(Succeeded)
            n == Len(calls)
        IN  /\ n = CeilDiv(S, FlushThreshold)
            /\ \A c \in 1..(n - 1) : Len(calls[c].items) = FlushThreshold
            /\ n > 0 => Len(calls[n].items) =
                            IF S % FlushThreshold = 0 THEN FlushThreshold
                            ELSE S % FlushThreshold
            /\ S = 0 => calls = <<>>

\* A returned run with more successes than one batch: a full call made by
\* a worker and a last call with the remainder.
C2_Witness ==
    /\ mainPc = "returned"
    /\ Cardinality(Succeeded) > FlushThreshold
    /\ Len(calls) = 2
    /\ Len(calls[2].items) = Cardinality(Succeeded) % FlushThreshold

(***************************************************************************)
(* C3                                                                      *)
(***************************************************************************)

\* C3: append, threshold test, bulk submission and clear are one atomic
\* step, so no two flushes made by workers carry the same record and no
\* record is appended to a buffer that a worker has already flushed.
C3_AtomicFlush ==
    \A c \in 1..Len(calls) :
        calls[c].by = "worker" =>
            /\ \A d \in 1..Len(calls) :
                  (d # c /\ calls[d].by = "worker") =>
                      Range(calls[c].items) \cap Range(calls[d].items) = {}
            /\ \/ Range(stac_items) \cap Range(calls[c].items) = {}
               \/ stac_items = calls[c].items

(***************************************************************************)
(* C4                                                                      *)
(***************************************************************************)

\* C4: every record returned by process_image is passed to the catalog in
\* exactly one bulk-insert call: never in two calls, and in one call once
\* the run has completed.
C4_SubmittedExactlyOnce ==
    /\ \A uri \in Uris : Cardinality(CallsWith(uri)) <= 1
    /\ RunCompleted =>
          \A uri \in Succeeded : Cardinality(CallsWith(uri)) = 1

(***************************************************************************)
(* C5                                                                      *)
(***************************************************************************)

\* C5: once a bulk-insert call has failed, start_workers does not return
\* normally and does not block forever: as long as it has not raised, some
\* task can still take a step.
C5_BulkFailureReachesCaller ==
    ~NoBulkFailure =>
        /\ mainPc # "returned"
        /\ mainPc = "raised" \/ ENABLED Next

(***************************************************************************)
(* C6                                                                      *)
(***************************************************************************)

\* C6: no bulk-insert call made after a failed one contains a record of
\* the failed call.
C6_NoRetry ==
    \A c \in 1..Len(calls) :
        ~calls[c].ok =>
            \A d \in (c + 1)..Len(calls) :
                Range(calls[d].items) \cap Range(calls[c].items) = {}

(***************************************************************************)
(* C7                                                                      *)
(***************************************************************************)

\* A failure happened while the image was processed: record_failed_image
\* was called for it, or one of its artifact uploads failed.
FailedWhileProcessing(uri) == record_calls[uri] > 0 \/ uri \in upload_errors

PoolStarted ==
    \/ \E w \in Workers : wpc[w] # "none"
    \/ queue # <<>>
    \/ unfinished # 0
    \/ stac_items # <<>>
    \/ calls # <<>>
    \/ failed_manifest # <<>>
    \/ \E uri \in Items : record_calls[uri] # 0

\* C8: workers exist and items are processed only after the collection
\* check, and the creation that follows not-found, have succeeded; when the
\* check or the creation fails the error leaves start_workers and nothing
\* is processed or submitted.
C8_CollectionBeforeItems ==
    /\ PoolStarted => collection # "absent" /\ mainPc \notin {"check", "create"}
    /\ exception \in {"CatalogError", "ConflictError"} =>
          mainPc = "raised" /\ ~PoolStarted

\* An item has been processed while others wait, in a run that created
\* the minimal collection.
C8_Witness ==
    /\ collection = "created"
    /\ mainPc = "join"
    /\ queue # <<>>
    /\ stac_items # <<>>

(***************************************************************************)
(* C9                                                                      *)
(***************************************************************************)

\* C9: a run whose create_collection call meets a collection that another
\* shard job created after the run's check does not abort for it.
C9_ToleratesAlreadyExists == exception # "ConflictError"

(***************************************************************************)
(* C10                                                                     *)
(***************************************************************************)

\* The item has been dequeued, processed and has its outcome.
Handled(uri) ==
    /\ uri \notin Range(queue)
    /\ \/ record_calls[uri] = 1
       \/ StacItem(uri) \in Range(stac_items)
       \/ CallsWith(uri) # {}

SentinelsQueued == Cardinality({k \in 1..Len(queue) : queue[k] = None})

Exited == {w \in Pool : wpc[w] = "exited"}

\* The order of the shutdown, in the runs without a failed bulk call.
C10_ShutdownOrder ==
    NoBulkFailure =>
        /\ (SentinelsQueued > 0 \/ Exited # {}) =>
              \A uri \in Uris : Handled(uri)
        /\ IF mainPc \in {"gather", "returned"}
           THEN /\ SentinelsQueued + Cardinality(Exited) = max_workers
                /\ \A w \in Exited : image[w] = None
           ELSE SentinelsQueued = 0 /\ Exited = {}
        /\ \A c \in 1..Len(calls) :
              calls[c].by = "main" =>
                  /\ c = Len(calls)
                  /\ Exited = Pool
                  /\ Len(calls[c].items) \in 1..(FlushThreshold - 1)
                  /\ stac_items = calls[c].items
                  /\ mainPc = "returned"
        /\ mainPc = "returned" =>
              /\ Exited = Pool
              /\ queue = <<>>
              /\ \/ stac_items = <<>>
                 \/ calls # <<>> /\ calls[Len(calls)].by = "main"

\* C10: without a failed bulk call start_workers terminates, the sentinels
\* follow the last task_done, every worker takes one sentinel and exits,
\* and the one final flush follows the exit of all workers and is followed
\* by no append.
C10_Terminates ==
    /\ []C10_ShutdownOrder
    /\ <>(mainPc \in {"returned", "raised"} \/ ~NoBulkFailure)

\* A returned run whose last records were flushed by the main task after a
\* flush by a worker.
C10_Witness ==
    /\ mainPc = "returned"
    /\ Len(calls) = 2
    /\ calls[1].by = "worker"
    /\ calls[2].by = "main"
    /\ Exited = Pool

(***************************************************************************)
(* C11, C12: concurrency of the pool and size of the batch buffer.         *)
(***************************************************************************)

RECURSIVE SumTo(_, _)
SumTo(f, n) == IF n = 0 THEN 0 ELSE f[n] + SumTo(f, n - 1)

\* The returns of queue.get() with an image, and the calls of task_done
\* that followed one.
Dequeued == SumTo(dequeues, MaxItems)

ItemsDone ==
    IF mainPc \in {"check", "create"} \/ wpc = [w \in Workers |-> "none"] THEN 0
    ELSE IF mainPc = "join" THEN Len(image_batch) - unfinished
    ELSE Len(image_batch)

\* The items dequeued and not yet marked done.
InFlight == Dequeued - ItemsDone

Waiting(uri) == Cardinality({k \in 1..Len(queue) : queue[k] = uri})

\* C11: at most max_workers items are in process at any time, and every
\* item of the manifest is dequeued once: it waits on the queue or has been
\* taken by one worker, never both and never twice.
C11_BoundedConcurrency ==
    /\ InFlight \in 0..max_workers
    /\ InFlight <= Cardinality({w \in Pool : wpc[w] # "none"})
    /\ \A uri \in Uris :
          /\ dequeues[uri] <= 1
          /\ (\E w \in Workers : wpc[w] # "none") => Waiting(uri) + dequeues[uri] = 1
          /\ mainPc = "returned" => dequeues[uri] = 1

\* Every worker of a pool of two holds an item it dequeued and never marked
\* done, and every other item has been dequeued.
C11_Witness ==
    /\ max_workers = 2
    /\ InFlight = max_workers
    /\ Dequeued = Len(image_batch)

\* C12 as stated: the buffer never holds more than FlushThreshold records
\* and every bulk-insert call receives between 1 and FlushThreshold records,
\* in runs with a failed bulk-insert call too.
C12_BufferBounded ==
    /\ Len(stac_items) <= FlushThreshold
    /\ \A c \in 1..Len(calls) : Len(calls[c].items) \in 1..FlushThreshold

(***************************************************************************)
(* C13-C20: the sharder.                                                   *)
(***************************************************************************)

\* The manifests uploaded so far, in the order of their uploads, and the
\* numbers of their entries.
Uploaded == SelectSeq(saves, LAMBDA m : m.ok)

Sizes(manifests) == [k \in 1..Len(manifests) |-> Len(manifests[k].entries)]

\* create_and_upload_manifest_files has returned.
Sharded == shardPc \in {"submit", "done"}

Unchanged == listing1 = listing2

\* C13: on an unchanged listing the sizes of the uploaded manifests sum to
\* the count of pass 1 and any two of them differ by at most one entry.
C13_BalancedShards ==
    (Sharded /\ Unchanged) =>
        /\ SumTo(Sizes(Uploaded), Len(Uploaded)) = object_count
        /\ \A a, b \in 1..Len(Uploaded) :
              Sizes(Uploaded)[a] - Sizes(Uploaded)[b] <= 1

\* Five qualifying objects have been sharded for three instances.
C13_Witness ==
    /\ Sharded /\ Unchanged
    /\ object_count = 5
    /\ instance_count = 3
    /\ Sizes(Uploaded) = <<2, 2, 1>>

\* The sizes C14 states for the count of pass 1: remainder manifests of
\* base + 1 entries, then the others of base entries.
base == object_count \div instance_count

StatedSizes ==
    Repeat(base + 1, object_count % instance_count)
        \o Repeat(base, instance_count - (object_count % instance_count))

InIndexOrder == \A k \in 1..Len(Uploaded) : Uploaded[k].name = ManifestUri(k)

\* C14 as stated: on an unchanged listing N manifests are uploaded in index
\* order, the first remainder ones with base + 1 entries and the following
\* N - remainder ones with base entries.
C14_SizesAsStated ==
    (Sharded /\ Unchanged) =>
        /\ InIndexOrder
        /\ Sizes(Uploaded) = StatedSizes

\* C14: on an unchanged listing the manifests are uploaded in index order,
\* the first remainder ones with base + 1 entries; the following
\* N - remainder ones hold base entries when base > 0 and are not uploaded
\* when base = 0.  For 23 objects and 5 instances the sizes are 5,5,5,4,4.
C14_SizesInOrder ==
    (Sharded /\ Unchanged) =>
        /\ InIndexOrder
        /\ Sizes(Uploaded) = SelectSeq(StatedSizes, LAMBDA n : n > 0)
        /\ (object_count = 23 /\ instance_count = 5)
              => Sizes(Uploaded) = <<5, 5, 5, 4, 4>>

\* The 23 images have been sharded for 5 instances.
C14_Witness ==
    /\ Sharded /\ Unchanged
    /\ object_count = 23
    /\ instance_count = 5
    /\ Len(Uploaded) = 5

\* C15: every manifest handed to _save_and_upload_manifest has at least
\* one entry, whatever the count, the shard count and the two listings; and
\* when the listing holds fewer qualifying objects than there are shards,
\* one manifest of one entry is uploaded for each of them.
C15_NoEmptyManifest ==
    /\ \A k \in 1..Len(saves) : Len(saves[k].entries) >= 1
    /\ (Sharded /\ Unchanged /\ instance_count > object_count) =>
          /\ Len(Uploaded) = object_count
          /\ \A k \in 1..Len(Uploaded) : Len(Uploaded[k].entries) = 1

\* Two qualifying objects have been sharded for three instances.
C15_Witness ==
    /\ Sharded /\ Unchanged
    /\ instance_count = 3
    /\ object_count = 2
    /\ Len(Uploaded) = 2

\* C16 as stated: whatever pass 2 lists, at most instance_count manifests
\* are uploaded, and manifest_filename holds the URIs of the uploaded
\* manifests, each once.
C16_AtMostNManifests ==
    /\ Len(Uploaded) <= instance_count
    /\ manifest_filename = [k \in 1..Len(Uploaded) |-> Uploaded[k].name]
    /\ \A a, b \in 1..Len(manifest_filename) :
          manifest_filename[a] = manifest_filename[b] => a = b

\* C17: a listing error of either pass or a failed upload leaves
\* execute_sm_processing_job as an exception: the failed upload is the last
\* call of _save_and_upload_manifest, its URI is not in manifest_filename,
\* no job has been submitted, and nothing is done afterwards.
C17_ErrorAborts ==
    /\ \A k \in 1..Len(saves) :
          ~saves[k].ok =>
              /\ k = Len(saves)
              /\ shardPc = "raised"
              /\ shard_exception = "UploadError"
              /\ saves[k].name \notin Range(manifest_filename)
    /\ shard_exception \in {"ListingError", "UploadError"} =>
          /\ shardPc = "raised"
          /\ jobs = <<>>
          /\ Range(manifest_filename) = {Uploaded[k].name : k \in 1..Len(Uploaded)}
    /\ shardPc = "raised" => ~ENABLED ShardNext

\* The upload of the second manifest failed while objects were left to
\* shard.
C17_Witness ==
    /\ shardPc = "raised"
    /\ shard_exception = "UploadError"
    /\ Len(saves) = 2
    /\ pos < Len(listing2) - 1

\* A listing error of the sharding pass after a manifest was uploaded.
C17_WitnessListing ==
    /\ shardPc = "raised"
    /\ shard_exception = "ListingError"
    /\ Len(Uploaded) >= 1

\* What the caller of count_objects and create_and_upload_manifest_files
\* receives from them: the exception that left them, or the None both
\* return (lines 56 and 82).
SharderResult == IF shardPc = "raised" THEN shard_exception ELSE "None"

\* C18 as stated: when no object qualifies, no manifest is uploaded, the
\* list of manifest URIs is empty and the caller is told "empty input".
C18_EmptyInputSignalled ==
    (Sharded /\ Unchanged /\ object_count = 0) =>
        /\ saves = <<>>
        /\ manifest_filename = <<>>
        /\ SharderResult = "EmptyInput"

UpperChar ==
    [n |-> "N", i |-> "I", t |-> "T", f |-> "F", p |-> "P", r |-> "R",
     e |-> "E", v |-> "V", w |-> "W", x |-> "X"]

SameLetter(c, d) ==
    \/ c = d
    \/ c \in DOMAIN UpperChar /\ UpperChar[c] = d
    \/ d \in DOMAIN UpperChar /\ UpperChar[d] = c

\* The key ends with the extension, or holds the marker, in some letter
\* case.
EndsWithInAnyCase(key, ext) ==
    /\ Len(key) >= Len(ext)
    /\ \A k \in 1..Len(ext) : SameLetter(key[Len(key) - Len(ext) + k], ext[k])

HoldsInAnyCase(key, marker) ==
    \E start \in 1..(Len(key) - Len(marker) + 1) :
        \A k \in 1..Len(marker) : SameLetter(key[start + k - 1], marker[k])

\* The keys C20 says are images to ingest.
StatedToQualify(key) ==
    /\ \E ext \in {<<".", "n", "t", "f">>, <<".", "n", "i", "t", "f">>,
                   <<".", "t", "i", "f">>, <<".", "t", "i", "f", "f">>} :
          EndsWithInAnyCase(key, ext)
    /\ ~HoldsInAnyCase(key, <<"_", "p", "r", "e", "v", "i", "e", "w">>)

\* The key has been put in a manifest by the sharding pass.
Placed(key) ==
    \/ Entry(key) \in Range(current_manifest)
    \/ \E k \in 1..Len(saves) : Entry(key) \in Range(saves[k].entries)

\* C20: pass 1 counts a key, and pass 2 places it in a manifest, exactly
\* when the key ends with one of the four extensions and does not hold the
\* preview marker, letter case ignored; so a listed key is counted exactly
\* when it is placed.
C20_SamePredicate ==
    /\ shardPc \in {"shard", "submit", "done"} =>
          \A key \in Range(listing1) : key \in counted <=> StatedToQualify(key)
    /\ Sharded =>
          \A key \in Range(listing2) :
              /\ Placed(key) <=> StatedToQualify(key)
              /\ key \in Range(listing1) => (Placed(key) <=> key \in counted)

\* An upper-case image key was counted and placed, and an upper-case
\* preview of an image was neither.
C20_Witness ==
    /\ Sharded
    /\ \E a, b \in Range(listing2) :
          /\ endswith(a, <<".", "T", "I", "F">>)
          /\ a \in counted /\ Placed(a)
          /\ contains(b, <<"_", "P", "R", "E", "V", "I", "E", "W">>)
          /\ endswith(b, <<".", "T", "I", "F">>)
          /\ b \notin counted /\ ~Placed(b)

(***************************************************************************)
(* C21-C30                                                                 *)
(***************************************************************************)

\* A step in which record_failed_image is called for uri.
Recorded(uri) == record_calls'[uri] = record_calls[uri] + 1

\* C21: a call of record_failed_image returns normally whether or not the
\* write succeeded: the worker marks the item done and stays in its loop,
\* no exception reaches start_workers, and the failure manifest is either
\* unchanged (failed write) or longer by the one line of the failure
\* details, its earlier lines kept.
C21_RecordNeverRaises ==
    [][\A uri \in Uris :
          Recorded(uri) =>
              /\ wpc' = wpc
              /\ unfinished' = unfinished - 1
              /\ exception' = exception
              /\ \/ failed_manifest' = failed_manifest
                 \/ /\ Len(failed_manifest') = Len(failed_manifest) + 1
                    /\ SubSeq(failed_manifest', 1, Len(failed_manifest))
                          = failed_manifest
                    /\ failed_manifest'[Len(failed_manifest')].image = uri
                    /\ failed_manifest'[Len(failed_manifest')].error # "none"]_vars

\* The run returned although the line of a failed item could not be
\* written, and the line of a later failed item was written.
C21_Witness ==
    /\ mainPc = "returned"
    /\ \E a, b \in Uris :
          /\ a < b
          /\ record_calls[a] = 1 /\ LinesNaming(a) = {}
          /\ record_calls[b] = 1 /\ Cardinality(LinesNaming(b)) = 1

\* The counts that start_workers hands to its caller or writes to its log
\* when it ends: it returns None (line 160) and its one closing log line,
\* "All images processed." (line 203), names no count.
ReportedCounts == {}

\* C22 as stated: a run that ends reports the counts of processed, failed
\* and submitted items, and a run that ends with an exception reports at
\* least the count of failed items.
C22_CountsReported ==
    /\ mainPc = "returned" =>
          {"processed", "failed", "submitted"} \subseteq ReportedCounts
    /\ mainPc = "raised" => "failed" \in ReportedCounts

\* C23 as stated: when process_image has returned, no source or derivative
\* file of the image is left in its local directory, whether the image was
\* processed or failed.
C23_ScratchDeleted == scratch = {}

(***************************************************************************)
(* The single-item processors.                                             *)
(***************************************************************************)

\* The position of the first token tok of a body from position k on, 0 when
\* there is none.
RECURSIVE Find(_, _, _)
Find(tokens, tok, k) ==
    IF k > Len(tokens) THEN 0
    ELSE IF tokens[k] = tok THEN k
    ELSE Find(tokens, tok, k + 1)

\* The tokens of a body between the first open after position k and the
\* first close after it: what json.loads gives for a string or a list.
Between(tokens, k, open, close) ==
    LET i == Find(tokens, open, k)
        j == IF i = 0 THEN 0 ELSE Find(tokens, close, i + 1)
    IN  IF i = 0 \/ j = 0 THEN <<>> ELSE SubSeq(tokens, i + 1, j - 1)

\* json.loads(response["body"]) of a failure response, as the tests read it.
MessageOf(body) == Between(body, Find(body, "message", 1), "\"", "\"")

StackTraceOf(body) == Between(body, Find(body, "stack_trace", 1), "[", "]")

IsSuccessResponse(r) ==
    /\ r.statusCode = 200
    /\ r.body # <<>>
    /\ r.body = JsonString(Between(r.body, 1, "\"", "\""))
    /\ Between(r.body, 1, "\"", "\"") # <<>>

IsFailureResponse(r) ==
    /\ r.statusCode = 500
    /\ Find(r.body, "message", 1) # 0
    /\ MessageOf(r.body) # <<>>
    /\ StackTraceOf(r.body) # <<>>

Returned == ipc = "done"

Raised == trace # <<>> /\ trace[Len(trace)].result = "raise"

ResourceNames == {UriName, PathName(ImageUri)}

Mentions(message, names) == \E i \in 1..Len(message) : message[i] \in names

MissingObject == request.processor = "image" /\ request.object = "missing"

\* The parts of C25 about what a missing object leaves behind: the failure
\* response, no STAC item on the output topic, no line in the failure
\* manifest.
MissingObjectFails ==
    MissingObject /\ Returned =>
        /\ IsFailureResponse(response)
        /\ published = <<>>
        /\ failed_manifest = <<>>

\* C25: for a URI of a missing object ImageProcessor.process returns the
\* failure response, whose error message mentions the resource that could
\* not be loaded; it publishes no STAC item and writes no FailureRecord.
C25_MissingObject ==
    /\ MissingObjectFails
    /\ MissingObject /\ Returned =>
          Mentions(MessageOf(response.body), ResourceNames)

\* The call of download_file made by a returned ImageProcessor.process.
DownloadCall == trace[1]

CallsOf(step, outcome) ==
    {i \in 1..Len(trace) : trace[i].step = step /\ trace[i].outcome = outcome}

JobUris == [i \in 1..Len(jobs) |-> jobs[i].S3_URI]

\* C27: execute_sm_processing_job submits jobs only after the counting pass
\* and every manifest upload have completed; it submits one job per
\* uploaded manifest, each with the URI of a different manifest as S3_URI
\* and an instance count of 1, and when every submission succeeded no
\* uploaded manifest is without a job.
C27_OneJobPerManifest ==
    /\ jobs # <<>> =>
          /\ shardPc \in {"submit", "done", "raised"}
          /\ pos = Len(listing2)
          /\ current_manifest = <<>> \/ Len(saves) = manifest_index
          /\ \A k \in 1..Len(saves) : saves[k].ok
    /\ Len(jobs) <= Len(Uploaded)
    /\ \A i \in 1..Len(jobs) :
          /\ jobs[i].S3_URI = Uploaded[i].name
          /\ jobs[i].InstanceCount = 1
    /\ \A i, j \in 1..Len(jobs) : i # j => JobUris[i] # JobUris[j]
    /\ shardPc = "done" => Len(jobs) = Len(Uploaded)

\* Every submission succeeded for a run that uploaded three manifests.
C27_Witness ==
    /\ shardPc = "done"
    /\ Len(Uploaded) = 3
    /\ Len(jobs) = 3

\* The entries of manifests one after the other.
RECURSIVE Flatten(_)
Flatten(manifests) ==
    IF manifests = <<>> THEN <<>>
    ELSE manifests[1].entries \o Flatten(Tail(manifests))

\* The entries of the qualifying objects of a listing, in listing order.
RECURSIVE QualifyingEntries(_)
QualifyingEntries(listing) ==
    IF listing = <<>> THEN <<>>
    ELSE (IF Qualifies(Head(listing)) THEN <<Entry(Head(listing))>> ELSE <<>>)
             \o QualifyingEntries(Tail(listing))

\* The uploaded manifests that hold the entry of a key.
ManifestsOf(key) ==
    {k \in 1..Len(Uploaded) : Entry(key) \in Range(Uploaded[k].entries)}

\* C30: the uploaded manifests partition the qualifying objects of the
\* pass-2 listing: every qualifying object is in exactly one uploaded
\* manifest, no manifest holds a non-qualifying key, the manifests one after
\* the other are the qualifying objects in listing order, and the k-th
\* manifest is named by the index k, so that no two share a name.
C30_Partition ==
    Sharded =>
        /\ Flatten(Uploaded) = QualifyingEntries(listing2)
        /\ \A key \in Range(listing2) :
              Cardinality(ManifestsOf(key)) = IF Qualifies(key) THEN 1 ELSE 0
        /\ \A k \in 1..Len(Uploaded) : Uploaded[k].name = ManifestUri(k)
        /\ \A j, k \in 1..Len(Uploaded) :
              j # k => Uploaded[j].name # Uploaded[k].name

\* Three manifests were uploaded for a listing that holds a sidecar between
\* the images: two images in the first, one in each of the others.
C30_Witness ==
    /\ Sharded
    /\ Len(Uploaded) = 3
    /\ Sizes(Uploaded) = <<2, 1, 1>>
    /\ \E key \in Range(listing2) : ~Qualifies(key)

\* json.dump of a manifest (bulk_cli.py line 125): the array of the objects
\* {"S3Uri": uri}.
DumpObject(entry) ==
    <<"{">> \o JsonString(<<"S3Uri">>) \o <<":">> \o JsonString(entry.S3Uri)
        \o <<"}">>

RECURSIVE DumpObjects(_)
DumpObjects(entries) ==
    IF entries = <<>> THEN <<>>
    ELSE DumpObject(Head(entries))
             \o (IF Len(entries) > 1 THEN <<",">> ELSE <<>>)
             \o DumpObjects(Tail(entries))

json_dump(manifest) == <<"[">> \o DumpObjects(manifest) \o <<"]">>

\* json.load of the text of a manifest (bulk_processor.py line 221): the
\* objects of the array from position k on, each with the string that
\* follows its one name.
RECURSIVE LoadObjects(_, _)
LoadObjects(tokens, k) ==
    IF k > Len(tokens) \/ tokens[k] = "]" THEN <<>>
    ELSE IF tokens[k] # "{" THEN LoadObjects(tokens, k + 1)
    ELSE LET name == Between(tokens, k, "\"", "\"")
             colon == Find(tokens, ":", k)
             close == Find(tokens, "}", colon)
         IN  <<[name |-> name,
                value |-> Between(tokens, colon, "\"", "\"")]>>
                 \o LoadObjects(tokens, close + 1)

json_load(tokens) == LoadObjects(tokens, 2)

\* process_manifest_file with the list returned in reverse order.
process_manifest_file_Reversed(tokens) ==
    LET manifest_data == json_load(tokens)
        n == Len(manifest_data)
    IN  IF manifest_data # <<>>
        THEN SomeList([k \in 1..n |-> manifest_data[n + 1 - k].value])
        ELSE NoList

\* process_manifest_file (lines 219-232) for the text of the downloaded
\* manifest: entry["S3Uri"] of every entry, or None for an empty array.
process_manifest_file(tokens) ==
    LET manifest_data == json_load(tokens)
    IN  IF manifest_data # <<>>
        THEN SomeList([k \in 1..Len(manifest_data) |-> manifest_data[k].value])
        ELSE NoList

\* The object of the output bucket under a manifest URI: the entries of the
\* last upload under that name.
Stored(uri) ==
    LET ks == {k \in 1..Len(Uploaded) : Uploaded[k].name = uri}
    IN  Uploaded[CHOOSE k \in ks : \A j \in ks : j <= k].entries

\* A manifest that is an empty array, put in the bucket by hand.
EmptyManifestUri == <<"s3://", "output", "/", "empty.json">>

\* main of bulk_processor.py (lines 252-266) in a submitted job, or in a
\* job started by hand on the empty manifest: process_manifest_file, whose
\* download may raise, the BulkProcessor, and start_workers when the list
\* is not empty.
MainReadsManifest ==
    /\ shardPc = "done"
    /\ main_pc = "idle"
    /\ \E job \in 0..Len(jobs), outcome \in {"ok", "error"} :
          LET uri == IF job = 0 THEN EmptyManifestUri ELSE jobs[job].S3_URI
              text == json_dump(IF job = 0 THEN <<>> ELSE Stored(uri))
              list == process_manifest_file(text)
          IN  /\ s3_uri' = uri
              /\ IF outcome = "error"
                 THEN /\ main_pc' = "raised"
                      /\ main_calls' = <<"process_manifest_file">>
                      /\ UNCHANGED s3_list
                 ELSE /\ s3_list' = list
                      /\ IF ~list.none /\ list.list # <<>>
                         THEN /\ main_pc' = "workers"
                              /\ main_calls' = <<"process_manifest_file",
                                    "BulkProcessor", "start_workers", "close">>
                         ELSE /\ main_pc' = "empty"
                              /\ main_calls' = <<"process_manifest_file",
                                    "BulkProcessor", "logger.error">>
    /\ UNCHANGED <<poolVars, shardVars, itemVars>>

ManifestNext ==
    \/ CountObjects
    \/ ShardObject
    \/ FinalFlush
    \/ SubmitJob
    \/ ReturnFromExecute
    \/ MainReadsManifest

ManifestSpec == ShardInit /\ [][ManifestNext]_vars

\* The source URIs of the qualifying objects of the k-th uploaded manifest.
ShardUris(k) ==
    [i \in 1..Len(Uploaded[k].entries) |-> Uploaded[k].entries[i].S3Uri]

\* C28: a manifest written by the sharder and read back by
\* process_manifest_file yields the source URIs of that shard, in the same
\* order, none added and none dropped; for a manifest that is an empty
\* array process_manifest_file returns None, and main then starts no
\* workers and makes no catalog call.
C28_ManifestRoundTrip ==
    /\ main_pc \in {"workers", "empty"} /\ s3_uri # EmptyManifestUri =>
          \E k \in 1..Len(Uploaded) :
              /\ Uploaded[k].name = s3_uri
              /\ ~s3_list.none
              /\ s3_list.list = ShardUris(k)
              /\ main_pc = "workers"
    /\ main_pc \in {"workers", "empty"} /\ s3_uri = EmptyManifestUri =>
          /\ s3_list = NoList
          /\ main_pc = "empty"
          /\ "start_workers" \notin Range(main_calls)
          /\ mainPc = "idle"
          /\ calls = <<>>

\* The job of the first manifest read back its two source URIs, with a
\* sidecar listed between the two images.
C28_Witness ==
    /\ main_pc = "workers"
    /\ s3_uri = ManifestUri(1)
    /\ Len(s3_list.list) = 2
    /\ s3_list.list[1] # s3_list.list[2]
    /\ \E k \in 2..(Len(listing2) - 1) :
          /\ ~Qualifies(listing2[k])
          /\ Entry(listing2[k - 1]).S3Uri = s3_list.list[1]
          /\ Entry(listing2[k + 1]).S3Uri = s3_list.list[2]
====
